---------------------------- MODULE Spec2Model ----------------------------
(***************************************************************************)
(* A model of nextpnr's common placement code (common/place_common.cc):    *)
(* the wirelength metric, place_single_cell with its bounded ripup loop,   *)
(* the relative-constraint legaliser (ConstraintLegaliseWorker) and        *)
(* get_constraints_distance.                                               *)
(*                                                                         *)
(* The device context (bels, their types and locations, the placement map  *)
(* behind bindBel/unbindBel) is outside place_common.cc; it is modelled    *)
(* here as a small fixed device and a map bel -> cell.                     *)
(***************************************************************************)
EXTENDS Integers, Sequences, FiniteSets, TLC

VARIABLES
    cells,            \* ctx->cells: cell -> CellInfo record
    bel_to_cell,      \* the context's placement map: bel -> bound cell or NoCell
    nets,             \* ctx->nets: net -> [driver, users]
    pc,               \* position of the (single) thread of control
    cell,             \* place_single_cell: the cell being placed in this iteration
    iters,            \* place_single_cell: remaining ripup budget
    require_legality, \* place_single_cell: its argument
    caller,           \* who called place_single_cell: "ext" or "legalise"
    idx,              \* legalise_constraints: position of the per-cell loop
    ridx,             \* legalise_constraints: position of the rippedCells loop
    rippedCells,      \* ConstraintLegaliseWorker::rippedCells
    oldLocations,     \* ConstraintLegaliseWorker::oldLocations
    ops,              \* the bind/unbind requests issued by the last step, in order
    loops,            \* number of outer-loop iterations of the running place_single_cell
    call,             \* what the running / last finished public call was entered with
    ncalls,           \* number of public calls made so far
    search,           \* an IncreasingDiameterSearch object under test
    emitted,          \* the get() values it has produced since reset()
    result,           \* the value returned by the last evaluated pure function
    valid_bels        \* per cell, the bels isValidBelForCell accepts (arch-specific)

vars == <<cells, bel_to_cell, nets, pc, cell, iters, require_legality, caller,
          idx, ridx, rippedCells, oldLocations, ops, loops, call, ncalls,
          search, emitted, result, valid_bels>>

-----------------------------------------------------------------------------
(* Small helpers.                                                          *)

Min2(a, b) == IF a < b THEN a ELSE b
Max2(a, b) == IF a > b THEN a ELSE b
Abs(a) == IF a < 0 THEN -a ELSE a
Range(s) == {s[i] : i \in DOMAIN s}

-----------------------------------------------------------------------------
(* The device.  Bels are numbered in the order getBels() enumerates them.  *)

NoBel == 0        \* BelId()
NoCell == 0       \* IdString() / nullptr

\* Strengths, in the order the code compares them.
STRENGTH_NONE == 0
STRENGTH_WEAK == 1
STRENGTH_STRONG == 2
STRENGTH_LOCKED == 3

\* CellInfo::UNCONSTR, a sentinel no coordinate or offset takes.
UNCONSTR == -1000

\* Grid dimensions of the device.
GridDimX == 3
GridDimY == 2
\* getTileDimZ(x, y): the number of z positions a tile has.
TileDim == 2

BelTable ==
    << [x |-> 0, y |-> 0, z |-> 0, type |-> "LC", gb |-> FALSE],
       [x |-> 1, y |-> 0, z |-> 0, type |-> "LC", gb |-> FALSE],
       [x |-> 1, y |-> 0, z |-> 1, type |-> "LC", gb |-> FALSE],
       [x |-> 2, y |-> 0, z |-> 0, type |-> "LC", gb |-> FALSE],
       [x |-> 0, y |-> 1, z |-> 0, type |-> "IO", gb |-> FALSE],
       [x |-> 2, y |-> 1, z |-> 0, type |-> "IO", gb |-> FALSE],
       [x |-> 1, y |-> 1, z |-> 0, type |-> "GB", gb |-> TRUE] >>

Bels == DOMAIN BelTable
Loc(x, y, z) == [x |-> x, y |-> y, z |-> z]
getBelLocation(bel) == Loc(BelTable[bel].x, BelTable[bel].y, BelTable[bel].z)
getBelType(bel) == BelTable[bel].type
getBelGlobalBuf(bel) == BelTable[bel].gb
getGridDimX == GridDimX
getGridDimY == GridDimY
getTileDimZ(x, y) == TileDim
getBelByLocation(loc) ==
    IF \E b \in Bels : getBelLocation(b) = loc
    THEN CHOOSE b \in Bels : getBelLocation(b) = loc
    ELSE NoBel
\* belTypeFromId: a cell's type names the bel type it goes on.
belTypeFromId(type) == type

-----------------------------------------------------------------------------
(* IncreasingDiameterSearch.                                               *)

IncreasingDiameterSearch3(start, min, max) ==
    [start |-> start, min |-> min, max |-> max, diameter |-> 0, sign |-> 0]
IncreasingDiameterSearch1(x) == IncreasingDiameterSearch3(x, x, x)

\* done() with >= for >: the search ends one diameter early.
done_early(s) == s.diameter >= (s.max - s.min)

done(s) == s.diameter > (s.max - s.min)

get(s) ==
    LET val == s.start + s.sign * s.diameter
    IN  Min2(Max2(val, s.min), s.max)

next(s) ==
    IF s.sign = 0
    THEN [s EXCEPT !.sign = 1, !.diameter = 1]
    ELSE IF s.sign = -1
    THEN IF (s.start + 1 * s.diameter) > s.max
         THEN [s EXCEPT !.sign = -1, !.diameter = s.diameter + 1]
         ELSE [s EXCEPT !.sign = 1, !.diameter = s.diameter + 1]
    ELSE IF (s.start + (-1) * s.diameter) < s.min
         THEN [s EXCEPT !.sign = 1, !.diameter = s.diameter + 1]
         ELSE [s EXCEPT !.sign = -1]

reset(s) == [s EXCEPT !.sign = 0, !.diameter = 0]

-----------------------------------------------------------------------------
(* The wirelength metric.  A netlist state is passed explicitly: cs is the *)
(* map cell -> CellInfo, ns the map net -> NetInfo.  ctx->timing_driven is  *)
(* off in the modelled context, so the slack weighting of COST mode (which *)
(* is floating-point arithmetic) is not entered and COST is the plain      *)
(* bounding-box length.                                                    *)

NoNet == 0

RECURSIVE net_users_box_with_globals(_, _, _, _)
\* net_users_box without the skip of users on global buffers (lines 59-60).
net_users_box_with_globals(cs, users, i, box) ==
    IF i > Len(users) THEN box
    ELSE LET load_cell == users[i]
         IN  IF load_cell = NoCell
             THEN net_users_box_with_globals(cs, users, i + 1, box)
             ELSE IF cs[load_cell].bel = NoBel
             THEN net_users_box_with_globals(cs, users, i + 1, box)
             ELSE LET load_loc == getBelLocation(cs[load_cell].bel)
                  IN  net_users_box_with_globals(cs, users, i + 1,
                          << Min2(box[1], load_loc.x), Max2(box[2], load_loc.x),
                             Min2(box[3], load_loc.y), Max2(box[4], load_loc.y) >>)

RECURSIVE net_users_box(_, _, _, _)
\* The loop over net->users (lines 45-67): box is <<xmin, xmax, ymin, ymax>>.
net_users_box(cs, users, i, box) ==
    IF i > Len(users) THEN box
    ELSE LET load_cell == users[i]
         IN  IF load_cell = NoCell
             THEN net_users_box(cs, users, i + 1, box)
             ELSE IF cs[load_cell].bel = NoBel
             THEN net_users_box(cs, users, i + 1, box)
             ELSE IF getBelGlobalBuf(cs[load_cell].bel)
             THEN net_users_box(cs, users, i + 1, box)
             ELSE LET load_loc == getBelLocation(cs[load_cell].bel)
                  IN  net_users_box(cs, users, i + 1,
                          << Min2(box[1], load_loc.x), Max2(box[2], load_loc.x),
                             Min2(box[3], load_loc.y), Max2(box[4], load_loc.y) >>)

get_net_metric(cs, net, type) ==
    LET driver_cell == net.driver
    IN  IF driver_cell = NoCell THEN 0
        ELSE IF cs[driver_cell].bel = NoBel THEN 0
        ELSE IF getBelGlobalBuf(cs[driver_cell].bel) THEN 0
        ELSE LET driver_loc == getBelLocation(cs[driver_cell].bel)
                 box == net_users_box(cs, net.users, 1,
                            << driver_loc.x, driver_loc.x, driver_loc.y, driver_loc.y >>)
             IN  (box[4] - box[3]) + (box[2] - box[1])

RECURSIVE sum_net_metric(_, _, _, _)
\* The loop of get_cell_metric over the set of net names, in name order.
sum_net_metric(cs, ns, names, type) ==
    IF names = {} THEN 0
    ELSE LET n == CHOOSE m \in names : \A k \in names : m <= k
         IN  get_net_metric(cs, ns[n], type) + sum_net_metric(cs, ns, names \ {n}, type)

get_cell_metric(cs, ns, c, type) ==
    LET names == {cs[c].ports[p] : p \in DOMAIN cs[c].ports} \ {NoNet}
    IN  sum_net_metric(cs, ns, names, type)

\* get_cell_metric_at_bel without cell->bel = oldBel (line 100).
get_cell_metric_at_bel_no_restore(cs, ns, c, bel, type) ==
    << get_cell_metric([cs EXCEPT ![c].bel = bel], ns, c, type),
       [cs EXCEPT ![c].bel = bel] >>

\* Returns <<wirelen, cs after the call>>: the cell's bel field is overwritten for
\* the evaluation and then set back to oldBel.
get_cell_metric_at_bel(cs, ns, c, bel, type) ==
    << get_cell_metric([cs EXCEPT ![c].bel = bel], ns, c, type),
       [[cs EXCEPT ![c].bel = bel] EXCEPT ![c].bel = cs[c].bel] >>

-----------------------------------------------------------------------------
(* get_constraints_distance.                                               *)

RECURSIVE get_constraints_distance(_, _)
RECURSIVE children_distance(_, _, _)

\* The loop over constr_children at lines 463-464.
children_distance(cs, children, i) ==
    IF i > Len(children) THEN 0
    ELSE get_constraints_distance(cs, children[i]) + children_distance(cs, children, i + 1)

\* own_distance with the x terms taken without std::abs.
own_distance_signed_x(cs, c) ==
    LET ci == cs[c]
        loc == getBelLocation(ci.bel)
    IN  IF ci.constr_parent = NoCell
        THEN (IF ci.constr_x # UNCONSTR THEN ci.constr_x - loc.x ELSE 0)
           + (IF ci.constr_y # UNCONSTR THEN Abs(ci.constr_y - loc.y) ELSE 0)
           + (IF ci.constr_z # UNCONSTR THEN Abs(ci.constr_z - loc.z) ELSE 0)
        ELSE LET parent_loc == getBelLocation(cs[ci.constr_parent].bel)
             IN  (IF ci.constr_x # UNCONSTR
                  THEN ci.constr_x - (loc.x - parent_loc.x) ELSE 0)
               + (IF ci.constr_y # UNCONSTR
                  THEN Abs(ci.constr_y - (loc.y - parent_loc.y)) ELSE 0)
               + (IF ci.constr_z # UNCONSTR
                  THEN IF ci.constr_abs_z
                       THEN Abs(ci.constr_z - loc.z)
                       ELSE Abs(ci.constr_z - (loc.z - parent_loc.z))
                  ELSE 0)

\* The terms a cell itself adds in get_constraints_distance (lines 440-462).
own_distance(cs, c) ==
    LET ci == cs[c]
        loc == getBelLocation(ci.bel)
    IN  IF ci.constr_parent = NoCell
        THEN (IF ci.constr_x # UNCONSTR THEN Abs(ci.constr_x - loc.x) ELSE 0)
           + (IF ci.constr_y # UNCONSTR THEN Abs(ci.constr_y - loc.y) ELSE 0)
           + (IF ci.constr_z # UNCONSTR THEN Abs(ci.constr_z - loc.z) ELSE 0)
        ELSE LET parent_loc == getBelLocation(cs[ci.constr_parent].bel)
             IN  (IF ci.constr_x # UNCONSTR
                  THEN Abs(ci.constr_x - (loc.x - parent_loc.x)) ELSE 0)
               + (IF ci.constr_y # UNCONSTR
                  THEN Abs(ci.constr_y - (loc.y - parent_loc.y)) ELSE 0)
               + (IF ci.constr_z # UNCONSTR
                  THEN IF ci.constr_abs_z
                       THEN Abs(ci.constr_z - loc.z)
                       ELSE Abs(ci.constr_z - (loc.z - parent_loc.z))
                  ELSE 0)

get_constraints_distance(cs, c) ==
    IF cs[c].bel = NoBel THEN 100000
    ELSE IF cs[c].constr_parent # NoCell /\ cs[cs[c].constr_parent].bel = NoBel
    THEN 100000
    ELSE own_distance(cs, c) + children_distance(cs, cs[c].constr_children, 1)

constraints_satisfied(cs, c) == get_constraints_distance(cs, c) = 0

-----------------------------------------------------------------------------
(* The placement map of the context.  A context state st is a record with  *)
(* the fields cells, bel_to_cell and ops; bindBel and unbindBel return the *)
(* state after the request and append a record of the request to ops:     *)
(* which bel, which cell, the strength the cell had (unbind) or whether    *)
(* the bel was free (bind) at that moment, and the source line asking.     *)

checkBelAvail(st, bel) == st.bel_to_cell[bel] = NoCell
getBoundBelCell(st, bel) == st.bel_to_cell[bel]
getConflictingBelCell(st, bel) == st.bel_to_cell[bel]

unbindBel(st, bel, why) ==
    LET c == st.bel_to_cell[bel]
        rec == [op |-> "unbind", bel |-> bel, cell |-> c, why |-> why, free |-> FALSE,
                strength |-> IF c = NoCell THEN STRENGTH_NONE ELSE st.cells[c].belStrength]
    IN  IF c = NoCell
        THEN [st EXCEPT !.ops = Append(@, rec)]
        ELSE [st EXCEPT !.cells[c].bel = NoBel,
                        !.cells[c].belStrength = STRENGTH_NONE,
                        !.bel_to_cell[bel] = NoCell,
                        !.ops = Append(@, rec)]

bindBel(st, bel, c, strength) ==
    LET rec == [op |-> "bind", bel |-> bel, cell |-> c, why |-> "bind",
                free |-> st.bel_to_cell[bel] = NoCell, strength |-> strength]
    IN  [st EXCEPT !.cells[c].bel = bel,
                   !.cells[c].belStrength = strength,
                   !.bel_to_cell[bel] = c,
                   !.ops = Append(@, rec)]

-----------------------------------------------------------------------------
(* place_single_cell.                                                      *)

ItersStart == 25       \* int iters = 25
JitterFrom == 4        \* if (iters >= 4)
RngN == 25             \* ctx->rng(25)
WirelenMax == 2147483647

\* The draws of ctx->rng(25) the model makes in one scan of the bels in cand:
\* each bel of cand in turn draws 0 while every other bel draws 24.  Which bel
\* wins a scan depends only on comparisons of cost + jitter, and a bel that can
\* win with jitters in 0 .. 24 wins with its own jitter 0 and every other jitter
\* 24, so these draws produce every winner the scan can have.
RngDraws(cand) ==
    IF cand = {} THEN { [b \in cand |-> 0] }
    ELSE { [b \in cand |-> IF b = w THEN 0 ELSE RngN - 1] : w \in cand }

\* curr_cell->belStrength < STRENGTH_STRONG with the wrong bound.
can_ripup_below_locked(cs, curr_cell) == cs[curr_cell].belStrength < STRENGTH_LOCKED

\* The test at line 135: only a cell bound below STRONG is a ripup target.
can_ripup(cs, curr_cell) == cs[curr_cell].belStrength < STRENGTH_STRONG

\* The test at line 145 taken one ripup early.
limit_reached_early(its) == its <= 1

\* The test at line 145.
limit_reached(its) == its = 0

\* Line 152 without the decrement.
iters_kept(its) == its

\* --iters at line 152.
iters_after_ripup(its) == its - 1

\* Line 160 without the hand-over to the displaced cell.
loop_cell_kept(c, ripup_target) == c

\* cell = ripup_target at line 160.
loop_cell(c, ripup_target) == ripup_target

\* The body of the bel loop (lines 121-141) for a bel of the target type that
\* passes the legality test: cs is the netlist after get_cell_metric_at_bel and
\* wirelen the cost with its jitter.  b is the record of the loop position bel,
\* best_bel, best_wirelen, best_ripup_wirelen, ripup_bel and ripup_target.
scan_candidate(st, b, cs, wirelen) ==
    IF checkBelAvail(st, b.bel)
    THEN IF wirelen <= b.best_wirelen
         THEN [b EXCEPT !.bel = @ + 1, !.cells = cs,
                        !.best_wirelen = wirelen, !.best_bel = b.bel]
         ELSE [b EXCEPT !.bel = @ + 1, !.cells = cs]
    ELSE IF wirelen <= b.best_ripup_wirelen /\ can_ripup(cs, getBoundBelCell(st, b.bel))
         THEN [b EXCEPT !.bel = @ + 1, !.cells = cs,
                        !.best_ripup_wirelen = wirelen,
                        !.ripup_bel = b.bel,
                        !.ripup_target = getBoundBelCell(st, b.bel)]
         ELSE [b EXCEPT !.bel = @ + 1, !.cells = cs]

\* Lines 122-124: m is what get_cell_metric_at_bel returned, draw what rng returns.
scan_jitter(st, b, m, its, draw) ==
    scan_candidate(st, b, m[2], IF its >= JitterFrom THEN m[1] + draw ELSE m[1])

\* One pass of the loop over ctx->getBels() (lines 119-143), at bel b.bel.
scan_bel(st, ns, c, its, rl, legal, jit, b) ==
    IF getBelType(b.bel) = belTypeFromId(b.cells[c].type) /\ (~rl \/ b.bel \in legal)
    THEN scan_jitter(st, b, get_cell_metric_at_bel(b.cells, ns, c, b.bel, "COST"),
                     its, jit[b.bel])
    ELSE [b EXCEPT !.bel = @ + 1]

RECURSIVE scan_bels(_, _, _, _, _, _, _, _)
\* The loop over ctx->getBels() at lines 119-143, from bel b.bel onwards.
\* jit[bel] is what rng returns on that round, legal the bels isValidBelForCell
\* accepts for the cell.  Returns the record after the last bel, with the cells.
scan_bels(st, ns, c, its, rl, legal, jit, b) ==
    IF b.bel > Len(BelTable) THEN b
    ELSE scan_bels(st, ns, c, its, rl, legal, jit,
                   scan_bel(st, ns, c, its, rl, legal, jit, b))

\* Lines 115-117.
unbind_self(st, c) ==
    IF st.cells[c].bel # NoBel THEN unbindBel(st, st.cells[c].bel, "self") ELSE st

\* Line 158 left out: the cell is not bound to the bel chosen for it.
bind_best_bel_skipped(st, best_bel, c) == st

\* ctx->bindBel(best_bel, cell->name, STRENGTH_WEAK) at line 158.
bind_best_bel(st, best_bel, c) == bindBel(st, best_bel, c, STRENGTH_WEAK)

\* Lines 144-160, after the scan left b: st is the context with the cells the
\* scan left.
place_decide(st, c, its, b) ==
    IF b.best_bel = NoBel
    THEN IF limit_reached(its)
         THEN [st |-> st, status |-> "limit", cell |-> c, iters |-> its]
         ELSE IF b.ripup_bel = NoBel
         THEN [st |-> st, status |-> "noplace", cell |-> c, iters |-> its]
         ELSE [st |-> bind_best_bel(unbindBel(st, st.cells[b.ripup_target].bel, "ripup"),
                                    b.ripup_bel, c),
               status |-> "ripup", cell |-> loop_cell(c, b.ripup_target),
               iters |-> iters_after_ripup(its)]
    ELSE [st |-> bind_best_bel(st, b.best_bel, c),
          status |-> "placed", cell |-> loop_cell(c, b.ripup_target),
          iters |-> its]

\* Lines 110-143 and the hand-over to the decision: st is the context after
\* the cell's own unbind, b the record the scan returns.
place_scanned(st, c, its, b) == place_decide([st EXCEPT !.cells = b.cells], c, its, b)

place_scan(st, ns, c, its, rl, legal, jit) ==
    place_scanned(st, c, its,
        scan_bels(st, ns, c, its, rl, legal, jit,
            [bel |-> 1, cells |-> st.cells,
             best_bel |-> NoBel, best_wirelen |-> WirelenMax,
             best_ripup_wirelen |-> WirelenMax,
             ripup_bel |-> NoBel, ripup_target |-> NoCell]))

\* One round of the while loop at lines 109-161 for cell c with budget its.
\* Returns [st, status, cell, iters]: status "placed" when all_placed was set,
\* "ripup" when the loop goes round again with the displaced cell, and
\* "limit" / "noplace" for the two log_error exits, which end the run.
place_round(st, ns, c, its, rl, legal, jit) ==
    place_scan(unbind_self(st, c), ns, c, its, rl, legal, jit)

-----------------------------------------------------------------------------
(* ConstraintLegaliseWorker.                                               *)

\* One step of the three-axis loop (lines 262-270 and 332-340): advance z, and
\* the next outer axis each time the inner one is done.
advance(xs, ys, zs) ==
    LET zs1 == next(zs)
    IN  IF done(zs1)
        THEN LET ys1 == next(ys)
             IN  IF done(ys1)
                 THEN [x |-> next(xs), y |-> reset(ys1), z |-> reset(zs1)]
                 ELSE [x |-> xs, y |-> ys1, z |-> reset(zs1)]
        ELSE [x |-> xs, y |-> ys, z |-> zs1]

\* The three searches valid_loc_for builds for a child of a cell at loc (lines 234-253).
child_searches(ci, loc) ==
    [x |-> IF ci.constr_x = UNCONSTR
           THEN IncreasingDiameterSearch3(loc.x, 0, getGridDimX - 1)
           ELSE IncreasingDiameterSearch1(loc.x + ci.constr_x),
     y |-> IF ci.constr_y = UNCONSTR
           THEN IncreasingDiameterSearch3(loc.y, 0, getGridDimY - 1)
           ELSE IncreasingDiameterSearch1(loc.y + ci.constr_y),
     z |-> IF ci.constr_z = UNCONSTR
           THEN IncreasingDiameterSearch3(loc.z, 0, getTileDimZ(loc.x, loc.y))
           ELSE IF ci.constr_abs_z
                THEN IncreasingDiameterSearch1(ci.constr_z)
                ELSE IncreasingDiameterSearch1(loc.z + ci.constr_z)]

\* The three searches legalise_cell builds for a root (lines 310-323).
root_searches(ci, currentLoc) ==
    [x |-> IF ci.constr_x = UNCONSTR
           THEN IncreasingDiameterSearch3(currentLoc.x, 0, getGridDimX - 1)
           ELSE IncreasingDiameterSearch1(ci.constr_x),
     y |-> IF ci.constr_y = UNCONSTR
           THEN IncreasingDiameterSearch3(currentLoc.y, 0, getGridDimY - 1)
           ELSE IncreasingDiameterSearch1(ci.constr_y),
     z |-> IF ci.constr_z = UNCONSTR
           THEN IncreasingDiameterSearch3(currentLoc.z, 0,
                                          getTileDimZ(currentLoc.x, currentLoc.y))
           ELSE IncreasingDiameterSearch1(ci.constr_z)]

\* loc_blocked with = STRENGTH_STRONG for >= STRENGTH_STRONG: a bel held by a
\* LOCKED cell is not blocked.
loc_blocked_strong_only(st, locBel) ==
    /\ ~checkBelAvail(st, locBel)
    /\ st.cells[getConflictingBelCell(st, locBel)].belStrength = STRENGTH_STRONG

\* loc_blocked without the test of the holder's strength: no bel is blocked.
loc_blocked_never(st, locBel) == FALSE

\* The test at lines 227-231: the bel is held by a cell bound STRONG or above.
loc_blocked(st, locBel) ==
    /\ ~checkBelAvail(st, locBel)
    /\ st.cells[getConflictingBelCell(st, locBel)].belStrength >= STRENGTH_STRONG

RECURSIVE valid_loc_for(_, _, _, _, _)
RECURSIVE children_loop(_, _, _, _, _, _)
RECURSIVE child_search(_, _, _, _, _)
RECURSIVE children_next(_, _, _, _, _)
RECURSIVE child_retry(_, _, _, _)
RECURSIVE child_try(_, _, _, _, _, _)

\* Lines 222-231: the location has no bel, a bel of another type, or is blocked.
loc_rejected(st, c, locBel) ==
    \/ locBel = NoBel
    \/ getBelType(locBel) # belTypeFromId(st.cells[c].type)
    \/ loc_blocked(st, locBel)

\* Lines 279-287, with r what the loop over the children left.
loc_result(c, loc, r) ==
    IF ~r.ok
    THEN [ok |-> FALSE, solution |-> r.solution, used |-> r.used \ {loc}]
    ELSE [ok |-> TRUE,
          solution |-> (c :> loc) @@ r.solution,
          used |-> IF c \in DOMAIN r.solution
                   THEN r.used \ {r.solution[c]}
                   ELSE r.used]

\* valid_loc_for returns [ok, solution, used]: solution and usedLocations are
\* passed by reference in the code, so what a failed call leaves in them is kept.
valid_loc_for(st, c, loc, solution, used) ==
    IF loc_rejected(st, c, getBelByLocation(loc))
    THEN [ok |-> FALSE, solution |-> solution, used |-> used]
    ELSE loc_result(c, loc, children_loop(st, c, loc, 1, solution, used \cup {loc}))

\* Lines 279-283 for the i-th child, with r what its search returned.
children_next(st, c, loc, i, r) ==
    IF r.ok THEN children_loop(st, c, loc, i + 1, r.solution, r.used) ELSE r

\* The loop over cell->constr_children (lines 233-283), from the i-th child.
children_loop(st, c, loc, i, solution, used) ==
    IF i > Len(st.cells[c].constr_children)
    THEN [ok |-> TRUE, solution |-> solution, used |-> used]
    ELSE children_next(st, c, loc, i,
             child_search(st, st.cells[c].constr_children[i],
                          child_searches(st.cells[st.cells[c].constr_children[i]], loc),
                          solution, used))

\* Lines 274-277, with r what valid_loc_for returned for the candidate.
child_retry(st, child, s1, r) ==
    IF r.ok THEN r ELSE child_search(st, child, s1, r.solution, r.used)

\* Lines 272-274 for candidate cloc, the searches advanced to s1 already.
child_try(st, child, cloc, s1, solution, used) ==
    IF cloc \in used
    THEN child_search(st, child, s1, solution, used)
    ELSE child_retry(st, child, s1, valid_loc_for(st, child, cloc, solution, used))

\* The while loop over candidate child locations (lines 255-278).
child_search(st, child, s, solution, used) ==
    IF done(s.x)
    THEN [ok |-> FALSE, solution |-> solution, used |-> used]
    ELSE child_try(st, child, Loc(get(s.x), get(s.y), get(s.z)),
                   advance(s.x, s.y, s.z), solution, used)

\* lockdown_chain without the descent into constr_children (lines 293-294).
lockdown_root_only(cs, root) == [cs EXCEPT ![root].belStrength = STRENGTH_LOCKED]

RECURSIVE lockdown_chain(_, _)
RECURSIVE lockdown_children(_, _, _)
lockdown_children(cs, children, i) ==
    IF i > Len(children) THEN cs
    ELSE lockdown_children(lockdown_chain(cs, children[i]), children, i + 1)

lockdown_chain(cs, root) ==
    lockdown_children([cs EXCEPT ![root].belStrength = STRENGTH_LOCKED],
                      cs[root].constr_children, 1)

RECURSIVE root_search(_, _, _)
RECURSIVE root_try(_, _, _, _)
\* Lines 344-372, with r what valid_loc_for returned for the root candidate and
\* s1 the searches advanced past it.
root_try(st, c, s1, r) ==
    IF r.ok THEN [ok |-> TRUE, solution |-> r.solution]
    ELSE root_search(st, c, s1)

\* The while loop over candidate root locations (lines 324-372), up to the
\* first candidate valid_loc_for accepts; each candidate starts from an empty
\* solution and an empty used set.
root_search(st, c, s) ==
    IF done(s.x)
    THEN [ok |-> FALSE, solution |-> << >>]
    ELSE root_try(st, c, advance(s.x, s.y, s.z),
                  valid_loc_for(st, c, Loc(get(s.x), get(s.y), get(s.z)), << >>, {}))

\* legalise_cell without its first loop: no cell of the solution is unbound.
unbind_solution_skipped(st, solution, order, i) == st

RECURSIVE unbind_solution(_, _, _, _)
\* First loop over the solution (lines 345-349), in iteration order.
unbind_solution(st, solution, order, i) ==
    IF i > Len(order) THEN st
    ELSE LET c == order[i]
         IN  IF st.cells[c].bel # NoBel
             THEN unbind_solution(unbindBel(st, st.cells[c].bel, "chain"),
                                  solution, order, i + 1)
             ELSE unbind_solution(st, solution, order, i + 1)

RECURSIVE bind_solution_over_incumbent(_, _, _, _)
\* bind_solution without the unbindBel of the incumbent at line 363.
bind_solution_over_incumbent(w, solution, order, i) ==
    IF i > Len(order) THEN w
    ELSE LET c == order[i]
             target == getBelByLocation(solution[c])
         IN  IF ~checkBelAvail(w.st, target)
             THEN LET conflicting == getConflictingBelCell(w.st, target)
                      weak == w.st.cells[conflicting].belStrength < STRENGTH_STRONG
                  IN  bind_solution_over_incumbent(
                          [st |-> bindBel(w.st, target, c, STRENGTH_LOCKED),
                           ripped |-> Append(w.ripped, conflicting),
                           asserts |-> w.asserts /\ weak],
                          solution, order, i + 1)
             ELSE bind_solution_over_incumbent(
                      [w EXCEPT !.st = bindBel(w.st, target, c, STRENGTH_LOCKED)],
                      solution, order, i + 1)

RECURSIVE bind_solution(_, _, _, _)
\* Second loop over the solution (lines 350-368).  w is [st, ripped, asserts]:
\* asserts becomes FALSE when the NPNR_ASSERT at line 362 would fire.
bind_solution(w, solution, order, i) ==
    IF i > Len(order) THEN w
    ELSE LET c == order[i]
             target == getBelByLocation(solution[c])
         IN  IF ~checkBelAvail(w.st, target)
             THEN LET conflicting == getConflictingBelCell(w.st, target)
                      weak == w.st.cells[conflicting].belStrength < STRENGTH_STRONG
                      st1 == unbindBel(w.st, target, "incumbent")
                  IN  bind_solution(
                          [st |-> bindBel(st1, target, c, STRENGTH_LOCKED),
                           ripped |-> Append(w.ripped, conflicting),
                           asserts |-> w.asserts /\ weak],
                          solution, order, i + 1)
             ELSE bind_solution(
                      [w EXCEPT !.st = bindBel(w.st, target, c, STRENGTH_LOCKED)],
                      solution, order, i + 1)

\* The iteration orders the unordered_map solution can have: every order of
\* its keys.  The two loops over the map see the same order.
map_orders(solution) ==
    { s \in UNION { [1 .. n -> DOMAIN solution] : n \in {Cardinality(DOMAIN solution)} } :
        \A i, j \in DOMAIN s : i # j => s[i] # s[j] }

\* What legalise_search returns for the outcome r of the root search.
search_result(st, r) ==
    [kind |-> IF r.ok THEN "found" ELSE "failed", st |-> st, solution |-> r.solution]

\* legalise_cell up to the end of the search (lines 298-344): "skip" for a cell
\* that is no chain root, "locked" for a chain that is satisfied already (with
\* lockdown_chain done), "found" with the solution of the first root candidate
\* valid_loc_for accepts, "failed" when there is none.  oldLoc is what
\* oldLocations holds for c.
legalise_search(st, c, oldLoc) ==
    IF st.cells[c].constr_parent # NoCell
    THEN [kind |-> "skip", st |-> st, solution |-> << >>]
    ELSE IF constraints_satisfied(st.cells, c)
    THEN [kind |-> "locked",
          st |-> [st EXCEPT !.cells = lockdown_chain(st.cells, c)],
          solution |-> << >>]
    ELSE search_result(st,
             root_search(st, c,
                 root_searches(st.cells[c],
                     IF st.cells[c].bel # NoBel
                     THEN getBelLocation(st.cells[c].bel)
                     ELSE oldLoc)))

\* Lines 369-370, with w what the second loop over the solution left.
apply_result(w, c) ==
    [res |-> TRUE, st |-> w.st, ripped |-> w.ripped,
     asserts |-> w.asserts /\ constraints_satisfied(w.st.cells, c)]

\* The rest of legalise_cell (lines 345-375) after legalise_search returned f;
\* order is the iteration order of the solution map.  Returns
\* [res, st, ripped, asserts]: res is the return value, asserts is FALSE when
\* one of the two NPNR_ASSERTs would fire.
legalise_apply(f, ripped, c, order) ==
    IF f.kind = "failed"
    THEN [res |-> FALSE, st |-> f.st, ripped |-> ripped, asserts |-> TRUE]
    ELSE IF f.kind # "found"
    THEN [res |-> TRUE, st |-> f.st, ripped |-> ripped, asserts |-> TRUE]
    ELSE apply_result(
             bind_solution([st |-> unbind_solution(f.st, f.solution, order, 1),
                            ripped |-> ripped, asserts |-> TRUE],
                           f.solution, order, 1),
             c)

legalise_cell(st, ripped, c, oldLoc, order) ==
    legalise_apply(legalise_search(st, c, oldLoc), ripped, c, order)

-----------------------------------------------------------------------------
(* Netlists and initial placements.                                        *)

Cells == {1, 2, 3}            \* cell names, in sorted(ctx->cells) order
CellOrder == << 1, 2, 3 >>
U == UNCONSTR

\* A CellInfo that is not placed yet.
CellInfo(type, parent, children, cx, cy, cz, abs_z, ports) ==
    [type |-> type, bel |-> NoBel, belStrength |-> STRENGTH_NONE,
     constr_parent |-> parent, constr_children |-> children,
     constr_x |-> cx, constr_y |-> cy, constr_z |-> cz, constr_abs_z |-> abs_z,
     ports |-> ports]

Free(type, ports) == CellInfo(type, NoCell, << >>, U, U, U, FALSE, ports)

\* The netlists the model starts from: the forest of constraint chains varies,
\* the nets are the same two (net 1 driven by cell 1, net 2 by cell 3).
Netlists ==
    { \* no constraints at all
      << Free("LC", <<1, 2>>), Free("LC", <<1>>), Free("LC", <<1, 2>>) >>,
      << Free("IO", <<1, 2>>), Free("IO", <<1>>), Free("IO", <<1, 2>>) >>,
      \* 1 -> 2 with 2 one column to the right; 3 on its own
      << CellInfo("LC", NoCell, <<2>>, U, U, U, FALSE, <<1, 2>>),
         CellInfo("LC", 1, << >>, 1, 0, 0, FALSE, <<1>>),
         Free("LC", <<1, 2>>) >>,
      \* 1 -> 2 with 2 anywhere in the row, one z above; 3 a root fixed to column 1
      << CellInfo("LC", NoCell, <<2>>, U, U, U, FALSE, <<1, 2>>),
         CellInfo("LC", 1, << >>, U, 0, 1, FALSE, <<1>>),
         CellInfo("LC", NoCell, << >>, 1, U, U, FALSE, <<1, 2>>) >>,
      \* 1 -> 2, 3: two children
      << CellInfo("LC", NoCell, <<2, 3>>, U, U, U, FALSE, <<1, 2>>),
         CellInfo("LC", 1, << >>, 1, 0, 0, FALSE, <<1>>),
         CellInfo("LC", 1, << >>, 0, 0, 1, TRUE, <<1, 2>>) >>,
      \* 1 -> 2 -> 3: a chain of depth three
      << CellInfo("LC", NoCell, <<2>>, U, 0, U, FALSE, <<1, 2>>),
         CellInfo("LC", 1, <<3>>, 1, 0, U, FALSE, <<1>>),
         CellInfo("LC", 2, << >>, U, 0, 0, TRUE, <<1, 2>>) >>,
      \* 3 -> 1: the root comes last in cell order; 2 a root fixed to z = 1
      << CellInfo("LC", 3, << >>, -1, 0, 0, FALSE, <<1, 2>>),
         CellInfo("LC", NoCell, << >>, U, U, 1, FALSE, <<1>>),
         CellInfo("LC", NoCell, <<1>>, U, U, U, FALSE, <<1, 2>>) >>,
      \* 1 -> 2, 3: 2 anywhere in the row of 1, 3 in the tile of 1 at z = 1
      << CellInfo("LC", NoCell, <<2, 3>>, U, U, U, FALSE, <<1, 2>>),
         CellInfo("LC", 1, << >>, U, 0, U, FALSE, <<1>>),
         CellInfo("LC", 1, << >>, 0, 0, 1, TRUE, <<1, 2>>) >> }

TheNets ==
    << [driver |-> 1, users |-> <<2, 3>>],
       [driver |-> 3, users |-> <<1>>] >>

\* Placements of the cells of netlist nl: each cell on no bel or on a bel of its
\* type, no bel used twice.
Placements(nl) ==
    { p \in [Cells -> Bels \cup {NoBel}] :
        /\ \A c \in Cells : p[c] # NoBel => getBelType(p[c]) = belTypeFromId(nl[c].type)
        /\ \A c, d \in Cells : (c # d /\ p[c] # NoBel) => p[c] # p[d] }

\* Initial strengths: every placed cell WEAK, but for at most one STRONG cell.
Strengths(p) ==
    { s \in [Cells -> {STRENGTH_NONE, STRENGTH_WEAK, STRENGTH_STRONG}] :
        /\ \A c \in Cells : (s[c] = STRENGTH_NONE) <=> (p[c] = NoBel)
        /\ Cardinality({c \in Cells : s[c] = STRENGTH_STRONG}) <= 1 }

placed_cells(nl, p, s) ==
    [c \in Cells |-> [nl[c] EXCEPT !.bel = p[c], !.belStrength = s[c]]]

placement_map(p) ==
    [b \in Bels |-> IF \E c \in Cells : p[c] = b
                    THEN CHOOSE c \in Cells : p[c] = b
                    ELSE NoCell]

\* The legality predicates the model starts from: every bel legal for every
\* cell, or cell 1 legal on one logic bel only and cell 2 on two.
ValidBelSets ==
    { [c \in Cells |-> Bels],
      [c \in Cells |-> CASE c = 1 -> Bels \ {2, 3, 4}
                          [] c = 2 -> Bels \ {2, 3}
                          [] OTHER -> Bels] }
isValidBelForCell(c, bel) == bel \in valid_bels[c]

\* call: the public call that is running or ran last (op, status), the cells
\* that were bound when it was entered (bound), and for the place_single_cell
\* call that is running or ran last: its argument (arg), the cells that were
\* bound (pbound) and those bound WEAK (pweak) when it was entered, and
\* whether it has returned (pstatus).
NoCall == [op |-> "none", status |-> "none", bound |-> {}, arg |-> NoCell,
           pbound |-> {}, pweak |-> {}, pstatus |-> "none"]
NoSearch == IncreasingDiameterSearch3(0, 0, -1)
NoResult == [fn |-> "none", arg |-> 0, type |-> "none", value |-> 0]

MaxCalls == 2

Init ==
    /\ \E nl \in Netlists : \E p \in Placements(nl) : \E s \in Strengths(p) :
         /\ cells = placed_cells(nl, p, s)
         /\ bel_to_cell = placement_map(p)
    /\ nets = TheNets
    /\ valid_bels \in ValidBelSets
    /\ pc = "idle"
    /\ cell = NoCell
    /\ iters = 0
    /\ require_legality = FALSE
    /\ caller = "none"
    /\ idx = 0
    /\ ridx = 0
    /\ rippedCells = << >>
    /\ oldLocations = << >>
    /\ ops = << >>
    /\ loops = 0
    /\ call = NoCall
    /\ ncalls = 0
    /\ search = NoSearch
    /\ emitted = << >>
    /\ result = NoResult

-----------------------------------------------------------------------------
(* The actions.  One public call runs at a time; pc is "idle" between      *)
(* calls, "place" inside place_single_cell's loop, "legalise" inside the   *)
(* per-cell loop of legalise_constraints, "replace" inside its loop over   *)
(* rippedCells, and "fatal" after log_error or a failed NPNR_ASSERT.       *)

ctx == [cells |-> cells, bel_to_cell |-> bel_to_cell, ops |-> << >>]
BoundCells == {c \in Cells : cells[c].bel # NoBel}
WeakCells == {c \in BoundCells : cells[c].belStrength = STRENGTH_WEAK}
MatchingBels(c) == {b \in Bels : getBelType(b) = belTypeFromId(cells[c].type)}

searchVars == <<search, emitted>>
staticVars == <<nets, valid_bels>>
legaliseVars == <<idx, ridx, rippedCells, oldLocations>>
placeVars == <<cell, iters, require_legality, caller, loops>>

\* Entry of place_single_cell from outside (lines 105-108).  Callers pass cells
\* that have a bel type to go on and are not LOCKED.
CallPlace(c, rl) ==
    /\ pc = "idle"
    /\ ncalls < MaxCalls
    /\ cells[c].belStrength < STRENGTH_LOCKED
    /\ pc' = "place"
    /\ cell' = c
    /\ iters' = ItersStart
    /\ require_legality' = rl
    /\ caller' = "ext"
    /\ loops' = 0
    /\ ops' = << >>
    /\ ncalls' = ncalls + 1
    /\ call' = [op |-> "place", status |-> "running", bound |-> BoundCells,
                arg |-> c, pbound |-> BoundCells, pweak |-> WeakCells,
                pstatus |-> "running"]
    /\ UNCHANGED <<cells, bel_to_cell, result>>
    /\ UNCHANGED <<staticVars, legaliseVars, searchVars>>

\* One round of place_single_cell's while loop (lines 109-161), and the return
\* at line 162 when the round set all_placed.
PlaceRound ==
    /\ pc = "place"
    /\ LET legal == {b \in Bels : isValidBelForCell(cell, b)}
           cand == {b \in MatchingBels(cell) : ~require_legality \/ b \in legal}
       IN  \E jit \in IF iters >= JitterFrom THEN RngDraws(cand)
                      ELSE { [b \in cand |-> 0] } :
           \E r \in { place_round(ctx, nets, cell, iters, require_legality, legal, jit) } :
             /\ cells' = r.st.cells
             /\ bel_to_cell' = r.st.bel_to_cell
             /\ ops' = r.st.ops
             /\ loops' = loops + 1
             /\ IF r.status = "placed"
                THEN /\ cell' = NoCell
                     /\ iters' = 0
                     /\ require_legality' = FALSE
                     /\ caller' = "none"
                     /\ IF caller = "ext"
                        THEN /\ pc' = "idle"
                             /\ call' = [call EXCEPT !.status = "returned",
                                                     !.pstatus = "returned"]
                             /\ ridx' = ridx
                        ELSE /\ pc' = "replace"
                             /\ call' = [call EXCEPT !.pstatus = "returned"]
                             /\ ridx' = ridx + 1
                ELSE IF r.status = "ripup"
                THEN /\ pc' = "place"
                     /\ cell' = r.cell
                     /\ iters' = r.iters
                     /\ call' = call
                     /\ UNCHANGED <<require_legality, caller, ridx>>
                ELSE /\ pc' = "fatal"
                     /\ cell' = r.cell
                     /\ iters' = r.iters
                     /\ call' = [call EXCEPT !.status = r.status, !.pstatus = r.status]
                     /\ UNCHANGED <<require_legality, caller, ridx>>
    /\ UNCHANGED <<idx, rippedCells, oldLocations, ncalls, result>>
    /\ UNCHANGED <<staticVars, searchVars>>

\* What getBelLocation returns for a cell without a bel is indeterminate (it
\* indexes the bel table with the null bel): Indeterminate marks such an entry
\* of oldLocations, and its value is drawn from IndeterminateLocs where it is read.
Indeterminate == Loc(U, U, U)
IndeterminateLocs ==
    { Loc(x, y, z) : x \in 0 .. GridDimX - 1, y \in 0 .. GridDimY - 1, z \in 0 .. TileDim - 1 }
      \cup { Loc(-1, -1, -1) }

\* Entry of legalise_relative_constraints and the snapshot loop (lines 405-409).
LegaliseStart ==
    /\ pc = "idle"
    /\ ncalls < MaxCalls
    /\ pc' = "legalise"
    /\ oldLocations' = [c \in Cells |-> IF cells[c].bel # NoBel
                                         THEN getBelLocation(cells[c].bel)
                                         ELSE Indeterminate]
    /\ rippedCells' = << >>
    /\ idx' = 1
    /\ ridx' = 1
    /\ ops' = << >>
    /\ ncalls' = ncalls + 1
    /\ call' = [op |-> "legalise", status |-> "running", bound |-> BoundCells,
                arg |-> NoCell, pbound |-> {}, pweak |-> {}, pstatus |-> "none"]
    /\ UNCHANGED <<cells, bel_to_cell, result>>
    /\ UNCHANGED <<staticVars, placeVars, searchVars>>

\* For each location of a solution, which cell held its bel before the apply step.
solution_ops(solution) ==
    LET order == SelectSeq(CellOrder, LAMBDA c : c \in DOMAIN solution)
    IN  [i \in 1 .. Len(order) |->
            LET bel == getBelByLocation(solution[order[i]])
                c == bel_to_cell[bel]
            IN  [op |-> "solution", bel |-> bel, cell |-> c, why |-> "solution",
                 free |-> c = NoCell,
                 strength |-> IF c = NoCell THEN STRENGTH_NONE
                              ELSE cells[c].belStrength]]

\* One round of the per-cell loop of legalise_constraints (lines 410-418):
\* legalise_cell on the idx-th cell.
LegaliseCell ==
    /\ pc = "legalise"
    /\ idx <= Len(CellOrder)
    /\ LET c == CellOrder[idx]
       IN  \E old \in IF cells[c].constr_parent = NoCell /\ cells[c].bel = NoBel
                         /\ oldLocations[c] = Indeterminate
                      THEN IndeterminateLocs ELSE {oldLocations[c]} :
           \E f \in { legalise_search(ctx, c, old) } :
           \E order \in map_orders(f.solution) :
           \E r \in { legalise_apply(f, rippedCells, c, order) } :
             /\ cells' = r.st.cells
             /\ bel_to_cell' = r.st.bel_to_cell
             /\ ops' = solution_ops(f.solution) \o r.st.ops
             /\ rippedCells' = r.ripped
             /\ IF ~r.res
                THEN /\ pc' = "fatal"
                     /\ call' = [call EXCEPT !.status = "nochain"]
                     /\ idx' = idx
                ELSE IF ~r.asserts
                THEN /\ pc' = "fatal"
                     /\ call' = [call EXCEPT !.status = "assert"]
                     /\ idx' = idx
                ELSE /\ pc' = IF idx = Len(CellOrder) THEN "replace" ELSE "legalise"
                     /\ call' = call
                     /\ idx' = idx + 1
    /\ UNCHANGED <<ridx, oldLocations, ncalls, result>>
    /\ UNCHANGED <<staticVars, placeVars, searchVars>>

\* One round of the loop over rippedCells (lines 419-425): the call of
\* place_single_cell, whose third argument STRENGTH_WEAK arrives as the bool
\* require_legality; after the last entry, the return at line 426.
ReplaceNext ==
    /\ pc = "replace"
    /\ IF ridx > Len(rippedCells)
       THEN /\ pc' = "idle"
            /\ call' = [call EXCEPT !.status = "returned"]
            /\ idx' = 0
            /\ ridx' = 0
            /\ rippedCells' = << >>
            /\ oldLocations' = << >>
            /\ UNCHANGED placeVars
       ELSE /\ pc' = "place"
            /\ cell' = rippedCells[ridx]
            /\ iters' = ItersStart
            /\ require_legality' = (STRENGTH_WEAK # 0)
            /\ caller' = "legalise"
            /\ loops' = 0
            /\ call' = [call EXCEPT !.arg = rippedCells[ridx], !.pbound = BoundCells,
                                     !.pweak = WeakCells, !.pstatus = "running"]
            /\ UNCHANGED legaliseVars
    /\ ops' = << >>
    /\ UNCHANGED <<cells, bel_to_cell, ncalls, result>>
    /\ UNCHANGED <<staticVars, searchVars>>

Next ==
    \/ \E c \in Cells : \E rl \in BOOLEAN : CallPlace(c, rl)
    \/ PlaceRound
    \/ LegaliseStart
    \/ LegaliseCell
    \/ ReplaceNext

Spec == Init /\ [][Next]_vars

-----------------------------------------------------------------------------
(* A second specification: IncreasingDiameterSearch objects driven the way  *)
(* the loops at lines 255-270 and 324-340 drive them.  With pc = "search"   *)
(* it is one object, get() then next() until done(); with pc = "search3"   *)
(* it is the whole loop over three objects.  min = start = max is the      *)
(* one-argument constructor.                                               *)

MaxCoord == 4
MaxAxis == 2

IdleMain ==
    /\ cells = << >>
    /\ bel_to_cell = << >>
    /\ nets = << >>
    /\ valid_bels = << >>
    /\ cell = NoCell
    /\ iters = 0
    /\ require_legality = FALSE
    /\ caller = "none"
    /\ idx = 0
    /\ ridx = 0
    /\ rippedCells = << >>
    /\ oldLocations = << >>
    /\ ops = << >>
    /\ loops = 0
    /\ call = NoCall
    /\ ncalls = 0

mainVars == <<cells, bel_to_cell, nets, valid_bels, cell, iters, require_legality,
              caller, idx, ridx, rippedCells, oldLocations, ops, loops, call, ncalls>>

\* The searches with min <= start <= max inside 0 .. n.
Searches(n) ==
    { IncreasingDiameterSearch3(t[1], t[2], t[3]) :
        t \in { u \in (0 .. n) \X (0 .. n) \X (0 .. n) : u[2] <= u[1] /\ u[1] <= u[3] } }

InitSearch ==
    /\ IdleMain
    /\ \/ /\ pc = "search"
          /\ search \in Searches(MaxCoord)
       \/ /\ pc = "search3"
          /\ search \in [x : Searches(MaxAxis), y : Searches(MaxAxis),
                         z : Searches(MaxAxis)]
    /\ emitted = << >>
    /\ result = NoResult

SearchStep ==
    /\ pc = "search"
    /\ ~done(search)
    /\ emitted' = Append(emitted, get(search))
    /\ search' = next(search)
    /\ UNCHANGED <<mainVars, pc, result>>

\* One round of the loop at lines 255-270 (and 324-340): the location is read
\* from the three searches, then they are advanced.
LoopStep ==
    /\ pc = "search3"
    /\ ~done(search.x)
    /\ emitted' = Append(emitted, Loc(get(search.x), get(search.y), get(search.z)))
    /\ search' = advance(search.x, search.y, search.z)
    /\ UNCHANGED <<mainVars, pc, result>>

NextSearch ==
    \/ SearchStep
    \/ LoopStep

SpecSearch == InitSearch /\ [][NextSearch]_vars

-----------------------------------------------------------------------------
(* A third specification: the pure functions get_constraints_distance and  *)
(* get_net_metric evaluated on netlists and placements drawn at the start. *)

EvalNetlists ==
    Netlists \cup
    { \* cells of three types, 1 -> 2 with 2 free on every axis
      << CellInfo("LC", NoCell, <<2>>, 1, U, U, FALSE, <<1, 2>>),
         CellInfo("IO", 1, << >>, U, U, U, FALSE, <<1>>),
         Free("GB", <<1, 2>>) >>,
      \* 2 -> 3 with 3 fixed in z only; the driver of net 1 goes on a global buffer
      << Free("GB", <<1, 2>>),
         CellInfo("LC", NoCell, <<3>>, U, 0, U, FALSE, <<1>>),
         CellInfo("LC", 2, << >>, U, U, 1, TRUE, <<1, 2>>) >>,
      << Free("IO", <<1, 2>>), Free("LC", <<1>>), Free("IO", <<1, 2>>) >> }

EvalNets ==
    { TheNets,
      << [driver |-> NoCell, users |-> <<1, 2>>],
         [driver |-> 2, users |-> <<NoCell, 3, 1>>] >> }

MetricTypes == {"WIRELENGTH", "COST"}

InitEval ==
    /\ \E nl \in EvalNetlists : \E p \in Placements(nl) :
         /\ cells = placed_cells(nl, p, [c \in Cells |-> IF p[c] = NoBel
                                                         THEN STRENGTH_NONE
                                                         ELSE STRENGTH_WEAK])
         /\ bel_to_cell = placement_map(p)
    /\ nets \in EvalNets
    /\ valid_bels = [c \in Cells |-> Bels]
    /\ pc = "eval"
    /\ cell = NoCell
    /\ iters = 0
    /\ require_legality = FALSE
    /\ caller = "none"
    /\ idx = 0
    /\ ridx = 0
    /\ rippedCells = << >>
    /\ oldLocations = << >>
    /\ ops = << >>
    /\ loops = 0
    /\ call = NoCall
    /\ ncalls = 0
    /\ search = NoSearch
    /\ emitted = << >>
    /\ result = NoResult

EvalDistance(c) ==
    /\ pc = "eval"
    /\ result' = [fn |-> "get_constraints_distance", arg |-> c, type |-> "none",
                  value |-> get_constraints_distance(cells, c)]
    /\ UNCHANGED <<mainVars, pc, searchVars>>

EvalNetMetric(n, type) ==
    /\ pc = "eval"
    /\ result' = [fn |-> "get_net_metric", arg |-> n, type |-> type,
                  value |-> get_net_metric(cells, nets[n], type)]
    /\ UNCHANGED <<mainVars, pc, searchVars>>

\* A call of get_cell_metric_at_bel: the netlist is what the call leaves.
EvalCellMetricAtBel(c, bel, type) ==
    /\ pc = "eval"
    /\ \E m \in { get_cell_metric_at_bel(cells, nets, c, bel, type) } :
         /\ cells' = m[2]
         /\ result' = [fn |-> "get_cell_metric_at_bel", arg |-> c, type |-> type,
                       value |-> m[1], bel |-> bel]
    /\ UNCHANGED <<bel_to_cell, nets, valid_bels, cell, iters, require_legality,
                   caller, idx, ridx, rippedCells, oldLocations, ops, loops, call,
                   ncalls>>
    /\ UNCHANGED <<pc, searchVars>>

NextEval ==
    \/ \E c \in Cells : EvalDistance(c)
    \/ \E n \in DOMAIN nets : \E type \in MetricTypes : EvalNetMetric(n, type)
    \/ \E c \in Cells : \E bel \in Bels : \E type \in MetricTypes :
         EvalCellMetricAtBel(c, bel, type)

SpecEval == InitEval /\ [][NextEval]_vars

-----------------------------------------------------------------------------
(* Properties of IncreasingDiameterSearch (checked under SpecSearch).      *)

\* C7: the get() values produced from reset() until done() lie in [min, max]
\* and no value is produced twice.
C7_InRangeNoDuplicates ==
    pc = "search" =>
        /\ \A i \in DOMAIN emitted : search.min <= emitted[i] /\ emitted[i] <= search.max
        /\ \A i, j \in DOMAIN emitted : i # j => emitted[i] # emitted[j]

RECURSIVE SearchSequence(_)
\* The get() values of the search s, in order, from its state s until done().
SearchSequence(s) ==
    IF done(s) THEN << >> ELSE << get(s) >> \o SearchSequence(next(s))

\* The combinations of xs, ys and zs with the index of zs running fastest and
\* the index of xs slowest.
ProductOrder(xs, ys, zs) ==
    [k \in 1 .. (Len(xs) * Len(ys) * Len(zs)) |->
        Loc(xs[((k - 1) \div (Len(ys) * Len(zs))) + 1],
            ys[(((k - 1) \div Len(zs)) % Len(ys)) + 1],
            zs[((k - 1) % Len(zs)) + 1])]

IsPrefix(s, t) == Len(s) <= Len(t) /\ s = SubSeq(t, 1, Len(s))

\* C18: a search with min <= start <= max produces start first, values whose
\* distance from start never decreases, every integer of [min, max] before
\* done(), and is done after at most 2 * (max - min) + 1 values; the
\* one-argument form produces its value once and nothing else; the loop over
\* three searches produces the combinations of their three sequences, z
\* fastest and x slowest, all of them by the time it ends.
C18_SearchCoversInOrder ==
    /\ pc = "search" =>
         /\ emitted # << >> => emitted[1] = search.start
         /\ \A i, j \in DOMAIN emitted :
              i < j => Abs(emitted[i] - search.start) <= Abs(emitted[j] - search.start)
         /\ Len(emitted) <= 2 * (search.max - search.min) + 1
         /\ done(search) =>
              \A v \in search.min .. search.max : \E i \in DOMAIN emitted : emitted[i] = v
         /\ (done(search) /\ search.min = search.max) => emitted = << search.start >>
    /\ pc = "search3" =>
         /\ IsPrefix(emitted, ProductOrder(SearchSequence(reset(search.x)),
                                           SearchSequence(reset(search.y)),
                                           SearchSequence(reset(search.z))))
         /\ done(search.x) =>
              Len(emitted) = Len(SearchSequence(reset(search.x)))
                             * Len(SearchSequence(reset(search.y)))
                             * Len(SearchSequence(reset(search.z)))

\* A loop over three searches of two or more values each has ended.
C18_Witness ==
    /\ pc = "search3"
    /\ done(search.x)
    /\ search.x.max > search.x.min
    /\ search.y.max > search.y.min
    /\ search.z.max > search.z.min
    /\ Len(emitted) >= 8
    /\ emitted[1] # emitted[Len(emitted)]

-----------------------------------------------------------------------------
(* Properties of the pure functions (checked under SpecEval).              *)

RECURSIVE Subtree(_, _)
\* The cells of the subtree rooted at c.
Subtree(cs, c) ==
    {c} \cup UNION { Subtree(cs, cs[c].constr_children[i]) :
                        i \in DOMAIN cs[c].constr_children }

\* Cell d is placed and meets its own constraints exactly.  For a non-root whose
\* parent has no bel there is no parent location: an axis constrained relative to
\* the parent is then not met.
MeetsExactly(cs, d) ==
    LET ci == cs[d]
        l == getBelLocation(ci.bel)
        par == ci.constr_parent
        hasParentLoc == par # NoCell /\ cs[par].bel # NoBel
        pl == getBelLocation(cs[par].bel)
    IN  /\ ci.bel # NoBel
        /\ IF par = NoCell
           THEN /\ ci.constr_x # UNCONSTR => ci.constr_x = l.x
                /\ ci.constr_y # UNCONSTR => ci.constr_y = l.y
                /\ ci.constr_z # UNCONSTR => ci.constr_z = l.z
           ELSE /\ ci.constr_x # UNCONSTR => (hasParentLoc /\ ci.constr_x = l.x - pl.x)
                /\ ci.constr_y # UNCONSTR => (hasParentLoc /\ ci.constr_y = l.y - pl.y)
                /\ ci.constr_z # UNCONSTR =>
                       IF ci.constr_abs_z THEN ci.constr_z = l.z
                       ELSE (hasParentLoc /\ ci.constr_z = l.z - pl.z)

SubtreeMeets(cs, c) == \A d \in Subtree(cs, c) : MeetsExactly(cs, d)

ParentPlaced(cs, c) ==
    cs[c].constr_parent = NoCell \/ cs[cs[c].constr_parent].bel # NoBel

\* C9 as claimed: get_constraints_distance(cell) is non-negative, and is 0 if and
\* only if every cell of the subtree rooted at cell is placed and meets its
\* constraints exactly.
C9_ZeroIffSubtreeMeets ==
    result.fn = "get_constraints_distance" =>
        /\ result.value >= 0
        /\ (result.value = 0) <=> SubtreeMeets(cells, result.arg)

\* C9 as amended: get_constraints_distance(cell) is non-negative, and is 0 if and
\* only if every cell of the subtree rooted at cell is placed and meets its
\* constraints exactly and the parent of cell, when it has one, is placed.
C9_ZeroIffSubtreeMeetsAndParentPlaced ==
    result.fn = "get_constraints_distance" =>
        /\ result.value >= 0
        /\ (result.value = 0) <=>
               (SubtreeMeets(cells, result.arg) /\ ParentPlaced(cells, result.arg))

\* A satisfied chain with a constrained child and a distance of 0, and a placed
\* cell whose unplaced parent alone makes the distance non-zero.
C9_Witness ==
    /\ result.fn = "get_constraints_distance"
    /\ \/ /\ result.value = 0
          /\ cells[result.arg].constr_children # << >>
          /\ \E d \in Subtree(cells, result.arg) : cells[d].constr_x \notin {UNCONSTR, 0}
       \/ /\ result.value # 0
          /\ SubtreeMeets(cells, result.arg)
          /\ ~ParentPlaced(cells, result.arg)

\* The bounding box of a set of locations.
BoxLength(locs) ==
    LET xs == {l.x : l \in locs}
        ys == {l.y : l \in locs}
        maxOf(S) == CHOOSE m \in S : \A k \in S : k <= m
        minOf(S) == CHOOSE m \in S : \A k \in S : m <= k
    IN  (maxOf(xs) - minOf(xs)) + (maxOf(ys) - minOf(ys))

\* The reference for get_net_metric in WIRELENGTH mode.
RefNetMetric(cs, net) ==
    IF net.driver = NoCell THEN 0
    ELSE IF cs[net.driver].bel = NoBel THEN 0
    ELSE IF getBelGlobalBuf(cs[net.driver].bel) THEN 0
    ELSE BoxLength({ getBelLocation(cs[net.driver].bel) } \cup
                   { getBelLocation(cs[u].bel) :
                       u \in { v \in Range(net.users) \ {NoCell} :
                                 cs[v].bel # NoBel /\ ~getBelGlobalBuf(cs[v].bel) } })

\* C10: in WIRELENGTH mode get_net_metric is 0 for a net without a driver cell,
\* with an unplaced driver or a driver on a global buffer, and otherwise the
\* half perimeter of the box around the driver and the users placed on bels that
\* are no global buffers.
C10_NetMetricIsBoundingBox ==
    (result.fn = "get_net_metric" /\ result.type = "WIRELENGTH") =>
        result.value = RefNetMetric(cells, nets[result.arg])

\* A net with a placed driver, a user that widens the box, and a user that is
\* unplaced, missing or on a global buffer.
C10_Witness ==
    /\ result.fn = "get_net_metric"
    /\ result.type = "WIRELENGTH"
    /\ result.value > 0
    /\ \E i \in DOMAIN nets[result.arg].users :
         LET u == nets[result.arg].users[i]
         IN  u = NoCell \/ cells[u].bel = NoBel \/ getBelGlobalBuf(cells[u].bel)

\* C12: get_cell_metric_at_bel returns with the cell's bel as it was before
\* the call, and with the placement map and every cell's fields (strength
\* included) unchanged.
C12_MetricAtBelRestores ==
    [][result'.fn = "get_cell_metric_at_bel" =>
         /\ cells' = cells
         /\ bel_to_cell' = bel_to_cell]_vars

\* The metric was taken for a placed cell at another bel, and is not 0.
C12_Witness ==
    /\ result.fn = "get_cell_metric_at_bel"
    /\ cells[result.arg].bel # NoBel
    /\ cells[result.arg].bel # result.bel
    /\ bel_to_cell[cells[result.arg].bel] = result.arg
    /\ result.value > 0

-----------------------------------------------------------------------------
(* Properties of place_single_cell and the legaliser (checked under Spec). *)

ChainCells ==
    {c \in Cells : cells[c].constr_parent # NoCell \/ cells[c].constr_children # << >>}

LegaliseReturned == pc = "idle" /\ call.op = "legalise" /\ call.status = "returned"

\* C1: when legalise_relative_constraints has returned true, every cell has
\* constraints distance 0 and every cell of a chain is bound LOCKED.
C1_LegalisePostcondition ==
    LegaliseReturned =>
        /\ \A c \in Cells : get_constraints_distance(cells, c) = 0
        /\ \A c \in ChainCells : cells[c].belStrength = STRENGTH_LOCKED

\* C2: no unbindBel is issued for a bel whose cell is bound LOCKED at that moment.
C2_NoUnbindOfLocked ==
    \A i \in DOMAIN ops :
        ops[i].op = "unbind" => ops[i].strength < STRENGTH_LOCKED

Consistent ==
    /\ \A b \in Bels : bel_to_cell[b] # NoCell => cells[bel_to_cell[b]].bel = b
    /\ \A c \in Cells : cells[c].bel # NoBel => bel_to_cell[cells[c].bel] = c

\* C3: the placement stays consistent (a bel holds the cell whose bel field names
\* it, and a cell is on no bel but the one its bel field names), and every
\* bindBel targets a bel that is free at that moment.
C3_ConsistentAndBindsFree ==
    /\ Consistent
    /\ \A i \in DOMAIN ops : ops[i].op = "bind" => ops[i].free

\* In the second of two calls, a bel is taken from its incumbent and bound at once.
C3_Witness ==
    /\ ncalls = 2
    /\ \E i \in DOMAIN ops :
         /\ i + 1 \in DOMAIN ops
         /\ ops[i].op = "unbind" /\ ops[i].why \in {"ripup", "incumbent"}
         /\ ops[i + 1].op = "bind" /\ ops[i + 1].bel = ops[i].bel /\ ops[i + 1].free

\* C4: when place_single_cell has returned true, its argument is on exactly one
\* bel, of its type, and every cell that was bound when it was entered is bound.
C4_PlaceReturnsAllBound ==
    call.pstatus = "returned" =>
        /\ cells[call.arg].bel # NoBel
        /\ getBelType(cells[call.arg].bel) = belTypeFromId(cells[call.arg].type)
        /\ {b \in Bels : bel_to_cell[b] = call.arg} = {cells[call.arg].bel}
        /\ call.pbound \subseteq BoundCells

\* A call that returned after ripping up two cells in turn, both bound before it.
C4_Witness ==
    /\ call.pstatus = "returned"
    /\ loops >= 3
    /\ Cardinality(call.pbound) = 2
    /\ call.pbound \subseteq BoundCells

\* C5: place_single_cell runs its loop at most 26 times: inside the loop the
\* rounds done are the ripups done, 25 - iters with iters >= 0, and a round
\* either ends the call or uses up one of the 25 ripups.
C5_AtMost26Rounds ==
    /\ loops <= ItersStart + 1
    /\ pc = "place" => (iters >= 0 /\ loops = ItersStart - iters)
    /\ call.pstatus = "limit" => loops = ItersStart + 1

\* The 26th round, entered after 25 ripups, ends in the fatal error.
C5_Witness == pc = "fatal" /\ call.pstatus = "limit" /\ loops = 26

\* C6: a cell unbound to hand its bel to another cell is bound below STRONG at
\* that moment, and no bel of a chain solution is held by a cell bound STRONG or
\* above when the solution is found.
C6_RipupOnlyBelowStrong ==
    \A i \in DOMAIN ops :
        (ops[i].why \in {"ripup", "incumbent", "solution"} /\ ops[i].cell # NoCell)
            => ops[i].strength < STRENGTH_STRONG

\* A ripup, or an incumbent displaced by a chain, next to a cell bound STRONG on
\* a bel of the same type.
C6_Witness ==
    \E i \in DOMAIN ops :
        /\ ops[i].why \in {"ripup", "incumbent"}
        /\ \E c \in Cells :
             /\ cells[c].belStrength = STRENGTH_STRONG
             /\ getBelType(cells[c].bel) = getBelType(ops[i].bel)

\* The setting of C8: three cells of one type, the two bels of that type held by
\* WEAK cells, place_single_cell entered from outside for the third cell.
C8_Scenario ==
    /\ call.op = "place"
    /\ \A c \in Cells : cells[c].type = "IO"
    /\ Cardinality({b \in Bels : getBelType(b) = "IO"}) = 2
    /\ Cardinality(call.pbound) = 2
    /\ call.pweak = call.pbound
    /\ call.arg \notin call.pbound

\* C8 as claimed: the call ends with all three cells bound.
C8_AllThreeEndBound ==
    (C8_Scenario /\ pc \in {"idle", "fatal"}) => BoundCells = Cells

\* C8 as amended: with require_legality false every round rips up a WEAK
\* incumbent, two of the three cells are bound after every round, the call does
\* not return, and it ends in the 26th round with the ripup limit error.
C8_RipupUntilLimit ==
    (C8_Scenario /\ ~require_legality) =>
        /\ call.status # "returned"
        /\ Cardinality(BoundCells) = 2
        /\ (pc = "place" /\ loops > 0) =>
               \E i \in DOMAIN ops : ops[i].why = "ripup" /\ ops[i].strength = STRENGTH_WEAK
        /\ pc = "fatal" => (call.status = "limit" /\ loops = ItersStart + 1)

\* The displaced cell has displaced another, and the call has ended in the error.
C8_Witness ==
    /\ C8_Scenario /\ ~require_legality
    /\ pc = "fatal" /\ call.status = "limit"
    /\ Cardinality(BoundCells) = 2

-----------------------------------------------------------------------------
(* Properties of legalise_cell and legalise_constraints, step by step.     *)

\* The cell the per-cell loop of legalise_constraints is about to process.
NextLegalised == CellOrder[idx]

\* The per-cell loop is at a chain root whose chain has constraints distance 0.
AtSatisfiedRoot ==
    /\ pc = "legalise"
    /\ idx <= Len(CellOrder)
    /\ cells[NextLegalised].constr_parent = NoCell
    /\ get_constraints_distance(cells, NextLegalised) = 0

\* C11: legalise_cell on a chain root whose chain has distance 0 issues no
\* bindBel and no unbindBel, leaves the placement map and every cell's bel as
\* they are, sets LOCKED on the root and all its descendants (and changes no
\* other cell), and returns true.
C11_SatisfiedChainOnlyLocked ==
    [][AtSatisfiedRoot =>
         /\ ops' = << >>
         /\ bel_to_cell' = bel_to_cell
         /\ rippedCells' = rippedCells
         /\ \A c \in Cells :
              IF c \in Subtree(cells, NextLegalised)
              THEN cells'[c] = [cells[c] EXCEPT !.belStrength = STRENGTH_LOCKED]
              ELSE cells'[c] = cells[c]
         /\ pc' \in {"legalise", "replace"}
         /\ idx' = idx + 1]_vars

\* In the first call, legalise_cell has just returned for a root with a child,
\* without a bind or unbind, and the whole chain is LOCKED where it was.
C11_Witness ==
    /\ ncalls = 1 /\ call.op = "legalise"
    /\ pc \in {"legalise", "replace"}
    /\ idx >= 2
    /\ cells[CellOrder[idx - 1]].constr_parent = NoCell
    /\ cells[CellOrder[idx - 1]].constr_children # << >>
    /\ ops = << >>
    /\ \A c \in Subtree(cells, CellOrder[idx - 1]) :
         cells[c].bel # NoBel /\ cells[c].belStrength = STRENGTH_LOCKED

\* Placing cell d on bel b meets d's own constraints, its parent (if any) being
\* on bel a[parent].
OffsetsMet(cs, a, d, b) ==
    LET ci == cs[d]
        l == getBelLocation(b)
    IN  IF ci.constr_parent = NoCell
        THEN /\ ci.constr_x # UNCONSTR => l.x = ci.constr_x
             /\ ci.constr_y # UNCONSTR => l.y = ci.constr_y
             /\ ci.constr_z # UNCONSTR => l.z = ci.constr_z
        ELSE LET pl == getBelLocation(a[ci.constr_parent])
             IN  /\ ci.constr_x # UNCONSTR => l.x - pl.x = ci.constr_x
                 /\ ci.constr_y # UNCONSTR => l.y - pl.y = ci.constr_y
                 /\ ci.constr_z # UNCONSTR =>
                        IF ci.constr_abs_z THEN l.z = ci.constr_z
                        ELSE l.z - pl.z = ci.constr_z

\* The valid assignments for the chain rooted at root: pairwise distinct
\* locations, each with a bel of the cell's type that no cell of strength
\* STRONG or above holds, every constrained offset met.
ValidAssignments(cs, map, root) ==
    { a \in [Subtree(cs, root) -> Bels] :
        /\ \A c, d \in DOMAIN a : c # d => a[c] # a[d]
        /\ \A d \in DOMAIN a :
             /\ getBelType(a[d]) = belTypeFromId(cs[d].type)
             /\ map[a[d]] # NoCell => cs[map[a[d]]].belStrength < STRENGTH_STRONG
             /\ OffsetsMet(cs, a, d, a[d]) }

\* C13: legalise_cell fails for an unsatisfied chain only when the chain has no
\* valid assignment; stated for the calls that found every cell placed, where
\* each search starts from a location of the grid.
C13_FailsOnlyWithoutAssignment ==
    (pc = "fatal" /\ call.status = "nochain" /\ call.bound = Cells) =>
        ValidAssignments(cells, bel_to_cell, NextLegalised) = {}

\* C14: neither of the two NPNR_ASSERTs on the success path of legalise_cell
\* (the incumbent of a target bel is bound below STRONG; the chain's constraints
\* are satisfied after the binds) fires.
C14_AssertsNeverFire == ~(pc = "fatal" /\ call.status = "assert")

\* legalise_cell has bound a solution over an incumbent and gone on.
C14_Witness ==
    /\ call.op = "legalise"
    /\ pc \in {"legalise", "replace"}
    /\ \E i \in DOMAIN ops : ops[i].why = "incumbent"
    /\ \E i \in DOMAIN ops : ops[i].op = "bind" /\ ops[i].strength = STRENGTH_LOCKED

\* C15: in one legalise_cell, every unbindBel of a cell of the chain comes
\* before every bindBel of the solution, and no cell of the chain is the
\* incumbent unbound at a target bel or is appended to rippedCells.
C15_ChainUnboundBeforeBinds ==
    [][(pc = "legalise" /\ idx <= Len(CellOrder)) =>
         /\ \A i, j \in DOMAIN ops' :
              (/\ ops'[i].op = "unbind"
               /\ ops'[i].cell \in Subtree(cells, NextLegalised)
               /\ ops'[j].op = "bind") => i < j
         /\ \A i \in DOMAIN ops' :
              ops'[i].why = "incumbent" =>
                  ops'[i].cell \notin Subtree(cells, NextLegalised)
         /\ \A k \in (Len(rippedCells) + 1) .. Len(rippedCells') :
              rippedCells'[k] \notin Subtree(cells, NextLegalised)]_vars

\* legalise_cell has unbound a placed chain of two or more cells, unbound an
\* incumbent and bound the solution.
C15_Witness ==
    /\ call.op = "legalise"
    /\ pc \in {"legalise", "replace"}
    /\ \E i, j \in DOMAIN ops :
         /\ i # j
         /\ ops[i].why = "chain"
         /\ ops[j].why = "chain"
    /\ \E i, j \in DOMAIN ops :
         /\ ops[i].why = "incumbent"
         /\ ops[j].op = "bind"
         /\ ops[j].bel = ops[i].bel
    /\ rippedCells # << >>

\* C16: the place_single_cell calls of the loop over rippedCells run with
\* require_legality = false.
C16_RippedPlacedWithoutLegality ==
    (pc = "place" /\ caller = "legalise") => ~require_legality

RECURSIVE SearchValues(_)
\* The values get() returns from the state s of a search until done().
SearchValues(s) == IF done(s) THEN {} ELSE {get(s)} \cup SearchValues(next(s))

\* The searches legalise_cell (for a root at its own location) and valid_loc_for
\* (for a child of a cell at loc) build for cell c.
SearchesFor(cs, c, loc) ==
    IF cs[c].constr_parent = NoCell
    THEN root_searches(cs[c], loc)
    ELSE child_searches(cs[c], loc)

AxesInGrid(ci, s, loc) ==
    /\ ci.constr_x = UNCONSTR => SearchValues(s.x) = 0 .. (getGridDimX - 1)
    /\ ci.constr_y = UNCONSTR => SearchValues(s.y) = 0 .. (getGridDimY - 1)
    /\ ci.constr_z = UNCONSTR => SearchValues(s.z) = 0 .. (getTileDimZ(loc.x, loc.y) - 1)

\* C17: when legalise_cell searches for a placed root, the candidate values on
\* every UNCONSTR axis of the root (from its own location) and of every cell
\* below it (from any bel location of its parent) are exactly 0 .. dim-1.
C17_UnconstrainedAxesSearchGrid ==
    (/\ pc = "legalise"
     /\ idx <= Len(CellOrder)
     /\ cells[NextLegalised].constr_parent = NoCell
     /\ cells[NextLegalised].bel # NoBel
     /\ ~constraints_satisfied(cells, NextLegalised)) =>
        \A c \in Subtree(cells, NextLegalised) :
            \A b \in Bels :
                (c = NextLegalised => b = cells[c].bel) =>
                    AxesInGrid(cells[c], SearchesFor(cells, c, getBelLocation(b)),
                               getBelLocation(b))

RECURSIVE RootOf(_, _)
\* The root of the chain cell c belongs to.
RootOf(cs, c) ==
    IF cs[c].constr_parent = NoCell THEN c ELSE RootOf(cs, cs[c].constr_parent)

\* The loop over the cells has called legalise_cell for the root of c's chain.
LegalisedEarlier(c) ==
    \E k \in 1 .. (idx - 1) : CellOrder[k] = RootOf(cells, c)

\* C19: a legalise_cell for one chain leaves every cell of another chain that
\* an earlier legalise_cell of the same loop left LOCKED as it is: same bel,
\* still holding it, still LOCKED, and not appended to rippedCells.
C19_LockedChainsUntouched ==
    [][(pc = "legalise" /\ idx <= Len(CellOrder)) =>
         \A c \in Cells :
             (/\ LegalisedEarlier(c)
              /\ cells[c].belStrength = STRENGTH_LOCKED
              /\ c \notin Subtree(cells, NextLegalised)) =>
                 /\ cells'[c] = cells[c]
                 /\ bel_to_cell'[cells[c].bel] = c
                 /\ \A i \in DOMAIN ops' : ops'[i].op = "unbind" => ops'[i].cell # c
                 /\ \A k \in (Len(rippedCells) + 1) .. Len(rippedCells') :
                      rippedCells'[k] # c]_vars

\* A legalise_cell has ripped up an incumbent and bound its chain while a cell
\* of a chain legalised before it stays LOCKED on its bel.
C19_Witness ==
    /\ call.op = "legalise"
    /\ pc \in {"legalise", "replace"}
    /\ idx >= 3
    /\ \E i \in DOMAIN ops : ops[i].why = "incumbent"
    /\ \E c \in Cells :
         /\ \E k \in 1 .. (idx - 2) : CellOrder[k] = RootOf(cells, c)
         /\ cells[c].belStrength = STRENGTH_LOCKED
         /\ bel_to_cell[cells[c].bel] = c
         /\ \A i \in DOMAIN ops : ops[i].cell # c

\* C20: when legalise_relative_constraints has returned true, every cell that
\* was bound when it was called is bound; the same holds each time the loop
\* over rippedCells is between two cells.
C20_BoundCellsStayBound ==
    (LegaliseReturned \/ (call.op = "legalise" /\ pc = "replace")) =>
        call.bound \subseteq BoundCells

\* legalise_relative_constraints has returned true after its last loop placed
\* again a cell that was bound at the call and was ripped up by a chain.
C20_Witness ==
    /\ LegaliseReturned
    /\ call.arg \in call.bound
    /\ cells[call.arg].bel # NoBel
    /\ cells[call.arg].belStrength = STRENGTH_WEAK
    /\ \E c \in Cells : c # call.arg /\ cells[c].belStrength = STRENGTH_LOCKED

=============================================================================
